---- MODULE Spec2Model ----
(***************************************************************************)
(* Model of the hh.ru vacancy parser: the scrape of the current listings,  *)
(* the reconciliation of the current listings with the persisted           *)
(* snapshots (unique_jobs, unique_closed_jobs) and the four table writes   *)
(* of a run, for both implementations the repository carries:              *)
(*   "class" : src/hh_parser (HhParser, HhParserResultsProcessor,          *)
(*             MainProcessor)                                               *)
(*   "flat"  : src/main.py, src/lib (HhParser.parse, DataEtl)              *)
(* Dates are day numbers; a year has YearLen days. A href is a number      *)
(* 1..NumHrefs (the order of the numbers is the lexicographic order of the *)
(* URLs, which pandas' outer merge sorts by).                              *)
(* Specifications:                                                         *)
(*   Spec           : serialized runs from empty tables                    *)
(*   SpecReconcile  : one run from any snapshot                            *)
(*   SpecConcurrent : two runs of the class pipeline on one database       *)
(*   SpecSalary     : the salary column of one run, from the texts to the  *)
(*                    statistics, the ranking and their two tables         *)
(*   SpecFetch      : one run from a snapshot, the scrape followed page by *)
(*                    page (requests that fail, dates that do not parse)   *)
(*   SpecBackoff    : the retry loop of one URL                            *)
(***************************************************************************)
EXTENDS Integers, Sequences, FiniteSets, TLC

\* ---------------------------------------------------------------- bounds
NumHrefs == 2
MaxListings == 2
MaxRuns == 2
YearLen == 2
MaxDays == 2
\* rows of unique_jobs and of unique_closed_jobs a run may start from, where
\* the tables are drawn instead of built by earlier runs
MaxPrior == 2
MaxPriorClosed == 1

Hrefs == 1..NumHrefs
\* a publication date as the page shows it: day and month, no year
RawDates == 0..(YearLen - 1)
\* the clock starts on the first day of year 1, so that "last year" exists
StartDay == YearLen
LastDay == StartDay + MaxDays

\* pandas' missing value (NaT / NaN) of a column of an outer merge
NaT == -1

VARIABLES
    today,                  \* datetime.now(), as a day number
    pipeline,               \* which implementation is deployed: "flat" | "class"
    pc,                     \* position of the run in progress
    runs,                   \* runs started so far
    df,                     \* the run's listings: rows [date, href]
    df_unique_jobs,         \* the run's new_unique delta: rows [date, href]
    df_merged,              \* the run's closure candidates
    df_unique_closed_jobs,  \* the run's new_closed delta
    db,                     \* the four PostgreSQL tables
    db_before,              \* the tables as they were when the run started
    pg_unique_closed_jobs,  \* unique_closed_jobs as the run read it
    second,                 \* a second process running the service on the same database
    salary,                 \* the salary column of the run's listings
    df_parsing_results,     \* the run's statistics
    df_current_jobs,        \* the run's listings, ranked by salary
    site,                   \* what hh.ru answers to the requests of the run in progress
    backoff                 \* the retry loop of one URL

vars == <<today, pipeline, pc, runs, df, df_unique_jobs, df_merged,
          df_unique_closed_jobs, db, db_before, pg_unique_closed_jobs,
          second, salary, df_parsing_results, df_current_jobs, site, backoff>>

\* what a run of the reconciliation leaves alone
others == <<second, salary, df_parsing_results, df_current_jobs, site, backoff>>

Tables == {"parsing_results", "current_jobs", "unique_jobs", "unique_closed_jobs"}

\* a table that does not exist yet
NoTable == [exists |-> FALSE, rows |-> <<>>]

\* ------------------------------------------------------------ the fetcher

Year(day) == day \div YearLen

\* the date is always given the current year
NoYearFix(raw_date, now) == Year(now) * YearLen + raw_date

\* HhParser._process_date: the year is the current one, or the previous one
\* when the date would lie in the future
_process_date(raw_date, now) ==
    LET this_year == Year(now) * YearLen + raw_date
    IN  IF this_year > now THEN (Year(now) - 1) * YearLen + raw_date
                           ELSE this_year

RawListing == [date : RawDates, href : Hrefs]

RawPages == UNION {[1..n -> RawListing] : n \in 0..MaxListings}

\* _get_data_from_divs: each listing with its date processed
_get_data_from_divs(raw, now) ==
    [i \in 1..Len(raw) |-> [date |-> _process_date(raw[i].date, now),
                            href |-> raw[i].href]]

\* df.sort_values(by='date', ascending=False): the order of equal dates is
\* not fixed by pandas' default sort
SortedByDate(rows) ==
    {s \in {[i \in 1..Len(rows) |-> rows[p[i]]] : p \in Permutations(1..Len(rows))} :
        \A i \in 1..(Len(s) - 1) : s[i].date >= s[i + 1].date}

\* ------------------------------------------------------------ the database

\* ConnPostgreSQL.get_table and _get_df_from_pgtable: the rows of the table,
\* or the empty frame when the table is missing or empty
get_table(tables, name) ==
    IF ~tables[name].exists \/ tables[name].rows = <<>> THEN <<>>
    ELSE tables[name].rows

\* if_exists='replace' where 'append' is meant
AppendAsReplace(tables, name, frame) ==
    [tables EXCEPT ![name] = [exists |-> TRUE, rows |-> frame]]

\* a write-time check: a row whose href the table already holds is skipped
AppendSkipExisting(tables, name, frame) ==
    LET held == {tables[name].rows[i].href : i \in {j \in DOMAIN tables[name].rows :
                                                      "href" \in DOMAIN tables[name].rows[j]}}
        fresh == SelectSeq(frame, LAMBDA r : "href" \notin DOMAIN r \/ r.href \notin held)
    IN  [tables EXCEPT ![name] = [exists |-> TRUE, rows |-> tables[name].rows \o fresh]]

\* the frame is not persisted
AppendLost(tables, name, frame) ==
    [tables EXCEPT ![name] = [exists |-> TRUE, rows |-> tables[name].rows]]

\* df.to_sql(if_exists='append'): creates the table when it is missing
to_sql_append(tables, name, frame) ==
    [tables EXCEPT ![name] = [exists |-> TRUE, rows |-> tables[name].rows \o frame]]

\* if_exists='append' where 'replace' is meant
ReplaceAsAppend(tables, name, frame) ==
    [tables EXCEPT ![name] = [exists |-> TRUE, rows |-> tables[name].rows \o frame]]

\* df.to_sql(if_exists='replace')
to_sql_replace(tables, name, frame) ==
    [tables EXCEPT ![name] = [exists |-> TRUE, rows |-> frame]]

\* ----------------------------------------------------------- pandas merge

KeyRows(rows, k) == SelectSeq(rows, LAMBDA r : r.href = k)

\* the rows of an outer merge for one key: the cross product of the left and
\* the right rows with that key, a missing side filled with nulls
JoinKey(left, right, null_x, null_y, k) ==
    LET Lk == KeyRows(left, k)
        Rk == KeyRows(right, k)
        n == Len(Lk)
        m == Len(Rk)
    IN  IF n = 0
        THEN [i \in 1..m |-> [href |-> k, x |-> null_x, y |-> Rk[i]]]
        ELSE IF m = 0
        THEN [i \in 1..n |-> [href |-> k, x |-> Lk[i], y |-> null_y]]
        ELSE [i \in 1..(n * m) |->
                 [href |-> k, x |-> Lk[((i - 1) \div m) + 1], y |-> Rk[((i - 1) % m) + 1]]]

RECURSIVE MergeFrom(_, _, _, _, _)
MergeFrom(left, right, null_x, null_y, k) ==
    IF k > NumHrefs THEN <<>>
    ELSE JoinKey(left, right, null_x, null_y, k)
            \o MergeFrom(left, right, null_x, null_y, k + 1)

\* pd.merge(left, right, on='href', how='outer'): keys in sorted order; x and
\* y hold the columns pandas suffixes _x and _y
merge(left, right, null_x, null_y) == MergeFrom(left, right, null_x, null_y, 1)

NullJob == [date |-> NaT, href |-> NaT]
NullClosed == [href |-> NaT, publication_date |-> NaT, closing_date |-> NaT, date_diff |-> NaT]

\* ------------------------------------------------------------- reconciler

\* how='left' where 'outer' is meant: the keys of unique_jobs only
MergedLeft(tables, frame) ==
    SelectSeq(merge(get_table(tables, "unique_jobs"), frame, NullJob, NullJob),
              LAMBDA r : r.x.date # NaT)

\* _get_unique_jobs_merged_df
_get_unique_jobs_merged_df(tables, frame) ==
    merge(get_table(tables, "unique_jobs"), frame, NullJob, NullJob)

\* every row of the current side, the filter on date_x left out
UniqueUnfiltered(tables, frame) ==
    LET m == SelectSeq(_get_unique_jobs_merged_df(tables, frame),
                       LAMBDA r : r.y.date # NaT)
    IN  [i \in 1..Len(m) |-> [date |-> m[i].y.date, href |-> m[i].href]]

\* a listing that is back after it was closed counts as new
UniqueReopened(tables, frame) ==
    LET closed == {tables["unique_closed_jobs"].rows[i].href :
                      i \in DOMAIN tables["unique_closed_jobs"].rows}
        m == SelectSeq(_get_unique_jobs_merged_df(tables, frame),
                       LAMBDA r : r.y.date # NaT /\ (r.x.date = NaT \/ r.href \in closed))
    IN  [i \in 1..Len(m) |-> [date |-> m[i].y.date, href |-> m[i].href]]

\* _get_unique_jobs_df: the rows with no date on the unique_jobs side
_get_unique_jobs_df(tables, frame) ==
    LET m == SelectSeq(_get_unique_jobs_merged_df(tables, frame),
                       LAMBDA r : r.x.date = NaT)
    IN  [i \in 1..Len(m) |-> [date |-> m[i].y.date, href |-> m[i].href]]

\* every row of the unique_jobs side, the filter on date_y left out
CandidatesUnfiltered(tables, frame, now) ==
    LET m == SelectSeq(_get_unique_jobs_merged_df(tables, frame),
                       LAMBDA r : r.x.date # NaT)
    IN  [i \in 1..Len(m) |-> [href |-> m[i].href,
                              publication_date |-> m[i].x.date,
                              closing_date |-> now,
                              date_diff |-> now - m[i].x.date]]

\* the listing is closed on the day it was published, not on the day of the run
CandidatesClosedAtPublication(tables, frame, now) ==
    LET m == SelectSeq(_get_unique_jobs_merged_df(tables, frame),
                       LAMBDA r : r.y.date = NaT)
    IN  [i \in 1..Len(m) |-> [href |-> m[i].href,
                              publication_date |-> m[i].x.date,
                              closing_date |-> m[i].x.date,
                              date_diff |-> 0]]

\* publication_date - closing_date where closing_date - publication_date is meant
CandidatesDiffReversed(tables, frame, now) ==
    LET m == SelectSeq(_get_unique_jobs_merged_df(tables, frame),
                       LAMBDA r : r.y.date = NaT)
    IN  [i \in 1..Len(m) |-> [href |-> m[i].href,
                              publication_date |-> m[i].x.date,
                              closing_date |-> now,
                              date_diff |-> m[i].x.date - now]]

\* publication_date taken from the clock, not from the unique_jobs record
CandidatesPublishedNow(tables, frame, now) ==
    LET m == SelectSeq(_get_unique_jobs_merged_df(tables, frame),
                       LAMBDA r : r.y.date = NaT)
    IN  [i \in 1..Len(m) |-> [href |-> m[i].href,
                              publication_date |-> now,
                              closing_date |-> now,
                              date_diff |-> now - m[i].x.date]]

\* _get_unique_closed_jobs_df, first half: the rows with no date on the
\* current side, closed now
ClosureCandidates(tables, frame, now) ==
    LET m == SelectSeq(_get_unique_jobs_merged_df(tables, frame),
                       LAMBDA r : r.y.date = NaT)
    IN  [i \in 1..Len(m) |-> [href |-> m[i].href,
                              publication_date |-> m[i].x.date,
                              closing_date |-> now,
                              date_diff |-> now - m[i].x.date]]

\* the merge with unique_closed_jobs left out
ClosedWithoutDedup(tables, candidates) == candidates

\* _get_unique_closed_jobs_df, second half: the candidates with no row on
\* the unique_closed_jobs side
_get_unique_closed_jobs_df(tables, candidates) ==
    LET m == SelectSeq(merge(get_table(tables, "unique_closed_jobs"), candidates,
                             NullClosed, NullClosed),
                       LAMBDA r : r.x.closing_date = NaT)
    IN  [i \in 1..Len(m) |-> [href |-> m[i].href,
                              publication_date |-> m[i].y.publication_date,
                              closing_date |-> m[i].y.closing_date,
                              date_diff |-> m[i].y.date_diff]]

\* _get_parsing_results_df: the run's one row of statistics (of its columns
\* the model keeps jobs_count)
_get_parsing_results_df(frame) ==
    <<[jobs_count |-> Len(frame)]>>

\* ---------------------------------------------------------------- actions

\* a process that has not started its run
NoRun == [pc |-> "idle", df |-> <<>>, df_unique_jobs |-> <<>>, df_merged |-> <<>>,
          df_unique_closed_jobs |-> <<>>, pg_unique_closed_jobs |-> <<>>]

\* the site where the scrape is not followed request by request: every
\* request is answered with 200 and every date parses
NoSite == [start |-> "ok", pages |-> <<>>]

\* no retry loop in progress
NoRequest == [statuses |-> <<>>, n |-> 0, gets |-> 0, returned |-> "none"]

\* no second process, no salary column read yet
InitOthers ==
    /\ second = NoRun
    /\ salary = <<>>
    /\ df_parsing_results = <<>>
    /\ df_current_jobs = <<>>
    /\ site = NoSite
    /\ backoff = NoRequest

Init ==
    /\ today = StartDay
    /\ pipeline \in {"flat", "class"}
    /\ pc = "idle"
    /\ runs = 0
    /\ df = <<>>
    /\ df_unique_jobs = <<>>
    /\ df_merged = <<>>
    /\ df_unique_closed_jobs = <<>>
    /\ db = [t \in Tables |-> NoTable]
    /\ db_before = [t \in Tables |-> NoTable]
    /\ pg_unique_closed_jobs = <<>>
    /\ InitOthers

\* the clock: midnight passes between two runs, or between the scrape and
\* the processing of its results
Tick ==
    /\ pc \in {"idle", "parsed"}
    /\ today < LastDay
    /\ today' = today + 1
    /\ UNCHANGED <<pipeline, pc, runs, df, df_unique_jobs, df_merged,
                   df_unique_closed_jobs, db, db_before>>
    /\ UNCHANGED pg_unique_closed_jobs
    /\ UNCHANGED others

\* the check of len(df) == 0 left out: a scrape of no listing goes on
HhParserRunsOnNothing ==
    /\ pc = "idle"
    /\ runs < MaxRuns
    /\ runs' = runs + 1
    /\ db_before' = db
    /\ \E raw \in RawPages :
         /\ pc' = "parsed"
         /\ df' \in SortedByDate(_get_data_from_divs(raw, today))
    /\ df_unique_jobs' = <<>>
    /\ df_merged' = <<>>
    /\ df_unique_closed_jobs' = <<>>
    /\ pg_unique_closed_jobs' = <<>>
    /\ UNCHANGED <<today, pipeline, db, others>>

\* HhParser.run / HhParser.parse: scrape the listings; no listing is an error
HhParser_run ==
    /\ pc = "idle"
    /\ runs < MaxRuns
    /\ runs' = runs + 1
    /\ db_before' = db
    /\ \E raw \in RawPages :
         IF Len(raw) = 0
         THEN /\ pc' = "aborted"
              /\ df' = <<>>
         ELSE /\ pc' = "parsed"
              /\ df' \in SortedByDate(_get_data_from_divs(raw, today))
    /\ df_unique_jobs' = <<>>
    /\ df_merged' = <<>>
    /\ df_unique_closed_jobs' = <<>>
    /\ UNCHANGED <<today, pipeline, db>>
    /\ pg_unique_closed_jobs' = <<>>
    /\ UNCHANGED others

\* HhParserResultsProcessor.run: the class pipeline computes every frame
\* before anything is written
HhParserResultsProcessor_run ==
    /\ pc = "parsed"
    /\ pipeline = "class"
    /\ df_unique_jobs' = _get_unique_jobs_df(db, df)
    /\ df_merged' = ClosureCandidates(db, df, today)
    /\ df_unique_closed_jobs' = _get_unique_closed_jobs_df(db, ClosureCandidates(db, df, today))
    /\ pc' = "parsing_results"
    /\ UNCHANGED <<today, pipeline, runs, df, db, db_before>>
    /\ pg_unique_closed_jobs' = get_table(db, "unique_closed_jobs")
    /\ UNCHANGED others

\* DataEtl(...).save_report_file(): the flat pipeline writes the report and
\* goes on to set_etl_data_to_bd
DataEtl_save_report_file ==
    /\ pc = "parsed"
    /\ pipeline = "flat"
    /\ pc' = "parsing_results"
    /\ UNCHANGED <<today, pipeline, runs, df, df_unique_jobs, df_merged,
                   df_unique_closed_jobs, db, db_before>>
    /\ UNCHANGED pg_unique_closed_jobs
    /\ UNCHANGED others

\* _get_parsing_results_df / _get_df_for_main_table raises on the salary
\* column (SalaryError, or round() of a NaN mean): the run ends with the
\* exception, before its first write
ProcessingFails ==
    /\ pc = "parsed"
    /\ pc' = "aborted"
    /\ UNCHANGED <<today, pipeline, runs, df, df_unique_jobs, df_merged,
                   df_unique_closed_jobs, db, db_before>>
    /\ UNCHANGED pg_unique_closed_jobs
    /\ UNCHANGED others

\* set_table(..., 'parsing_results', if_exists='append')
SetParsingResults ==
    /\ pc = "parsing_results"
    /\ db' = to_sql_append(db, "parsing_results", _get_parsing_results_df(df))
    /\ pc' = "current_jobs"
    /\ UNCHANGED <<today, pipeline, runs, df, df_unique_jobs, df_merged,
                   df_unique_closed_jobs, db_before>>
    /\ UNCHANGED pg_unique_closed_jobs
    /\ UNCHANGED others

\* set_table(..., 'current_jobs', if_exists='replace')
SetCurrentJobs ==
    /\ pc = "current_jobs"
    /\ db' = to_sql_replace(db, "current_jobs", df)
    /\ pc' = "unique_jobs"
    /\ UNCHANGED <<today, pipeline, runs, df, df_unique_jobs, df_merged,
                   df_unique_closed_jobs, db_before>>
    /\ UNCHANGED pg_unique_closed_jobs
    /\ UNCHANGED others

\* set_table(..., 'unique_jobs', if_exists='append'); the flat pipeline
\* computes the frame from the table only now
SetUniqueJobs ==
    /\ pc = "unique_jobs"
    /\ LET frame == IF pipeline = "flat" THEN _get_unique_jobs_df(db, df)
                                         ELSE df_unique_jobs
       IN  /\ df_unique_jobs' = frame
           /\ db' = to_sql_append(db, "unique_jobs", frame)
    /\ pc' = "unique_closed_jobs"
    /\ UNCHANGED <<today, pipeline, runs, df, df_merged, df_unique_closed_jobs, db_before>>
    /\ UNCHANGED pg_unique_closed_jobs
    /\ UNCHANGED others

\* set_table(..., 'unique_closed_jobs', if_exists='append'); the flat
\* pipeline reads unique_jobs again, after its own append
SetUniqueClosedJobs ==
    /\ pc = "unique_closed_jobs"
    /\ LET candidates == IF pipeline = "flat" THEN ClosureCandidates(db, df, today)
                                              ELSE df_merged
           frame == IF pipeline = "flat" THEN _get_unique_closed_jobs_df(db, candidates)
                                         ELSE df_unique_closed_jobs
       IN  /\ df_merged' = candidates
           /\ df_unique_closed_jobs' = frame
           /\ db' = to_sql_append(db, "unique_closed_jobs", frame)
    /\ pc' = "done"
    /\ UNCHANGED <<today, pipeline, runs, df, df_unique_jobs, db_before>>
    /\ pg_unique_closed_jobs' = IF pipeline = "flat" THEN get_table(db, "unique_closed_jobs")
                                                    ELSE pg_unique_closed_jobs
    /\ UNCHANGED others

\* df.to_sql raises (connection lost, ...): the run ends with the exception
SetTableFails ==
    /\ pc \in Tables
    /\ pc' = "aborted"
    /\ UNCHANGED <<today, pipeline, runs, df, df_unique_jobs, df_merged,
                   df_unique_closed_jobs, db, db_before>>
    /\ UNCHANGED pg_unique_closed_jobs
    /\ UNCHANGED others

\* the process ends (main returns, or the exception is reported); the next
\* run starts from the tables alone
Exit ==
    /\ pc \in {"done", "aborted"}
    /\ pc' = "idle"
    /\ df' = <<>>
    /\ df_unique_jobs' = <<>>
    /\ df_merged' = <<>>
    /\ df_unique_closed_jobs' = <<>>
    /\ db_before' = db
    /\ UNCHANGED <<today, pipeline, runs, db>>
    /\ pg_unique_closed_jobs' = <<>>
    /\ UNCHANGED others

Next ==
    \/ Tick
    \/ HhParser_run
    \/ HhParserResultsProcessor_run
    \/ DataEtl_save_report_file
    \/ ProcessingFails
    \/ SetParsingResults
    \/ SetCurrentJobs
    \/ SetUniqueJobs
    \/ SetUniqueClosedJobs
    \/ SetTableFails
    \/ Exit

Spec == Init /\ [][Next]_vars

\* ---- one run from any snapshot ----------------------------------------
\* The reconciliation as a function of its inputs: the snapshots are drawn
\* from bounded sets of well-formed rows, and one run follows.

PriorDates == {StartDay - 1, StartDay}

SeqsUpTo(S, n) == UNION {[1..k -> S] : k \in 0..n}

UniqueRows == [date : PriorDates, href : Hrefs]

ClosedRows ==
    {r \in [href : Hrefs, publication_date : PriorDates, closing_date : PriorDates,
            date_diff : 0..1] :
        r.date_diff = r.closing_date - r.publication_date}

PriorTables(rows, n) ==
    {NoTable} \cup {[exists |-> TRUE, rows |-> s] : s \in SeqsUpTo(rows, n)}

InitReconcile ==
    /\ today = StartDay
    /\ pipeline \in {"flat", "class"}
    /\ pc = "idle"
    /\ runs = MaxRuns - 1
    /\ df = <<>>
    /\ df_unique_jobs = <<>>
    /\ df_merged = <<>>
    /\ df_unique_closed_jobs = <<>>
    /\ \E u \in PriorTables(UniqueRows, MaxPrior), c \in PriorTables(ClosedRows, MaxPriorClosed) :
         db = [t \in Tables |-> IF t = "unique_jobs" THEN u
                                ELSE IF t = "unique_closed_jobs" THEN c
                                ELSE NoTable]
    /\ db_before = db
    /\ pg_unique_closed_jobs = <<>>
    /\ InitOthers

SpecReconcile == InitReconcile /\ [][Next]_vars

\* ------------------------------------------------------------ salary texts
\* A salary text is the sequence of its characters. Cyrillic letters are
\* written by their Latin transliteration: <<"o", "t">> is the word "from",
\* <<"d", "o">> the word "to", "Ne ukazano" the phrase "not specified",
\* "rub." the currency.

Digits == <<"0", "1", "2", "3", "4", "5", "6", "7", "8", "9">>

DigitValue(c) == CHOOSE d \in 0..9 : Digits[d + 1] = c

IsDigit(c) == \E d \in 0..9 : Digits[d + 1] = c

\* str.split(sep): the parts between the separators, empty parts included
RECURSIVE split_sep(_, _)
split_sep(s, sep) ==
    IF \A i \in DOMAIN s : s[i] # sep THEN <<s>>
    ELSE LET k == CHOOSE i \in DOMAIN s : s[i] = sep /\ \A j \in 1..(i - 1) : s[j] # sep
         IN  <<SubSeq(s, 1, k - 1)>> \o split_sep(SubSeq(s, k + 1, Len(s)), sep)

\* str.split(): the words between runs of whitespace
split(s) == SelectSeq(split_sep(s, " "), LAMBDA t : t # <<>>)

\* the digits after an optional sign
Unsigned(t) == IF t # <<>> /\ t[1] \in {"-", "+"} THEN Tail(t) ELSE t

\* int(t) raises ValueError: t is not an optional sign and decimal digits
ValueError(t) == Unsigned(t) = <<>> \/ \E i \in DOMAIN Unsigned(t) : ~IsDigit(Unsigned(t)[i])

RECURSIVE DigitsValue(_)
DigitsValue(t) ==
    IF t = <<>> THEN 0
    ELSE 10 * DigitsValue(SubSeq(t, 1, Len(t) - 1)) + DigitValue(t[Len(t)])

\* int(t), for a t that int() accepts
int(t) == IF t[1] = "-" THEN 0 - DigitsValue(Unsigned(t)) ELSE DigitsValue(Unsigned(t))

ot == <<"o", "t">>
do == <<"d", "o">>
NeUkazano == <<"N", "e", " ", "u", "k", "a", "z", "a", "n", "o">>

\* -------------------------------------------------------- salary parsing

\* the loop body of _find_salary_mean_and_median and of _get_current_jobs_df
\* raises: IndexError of split()[0] or split()[1], ValueError of int()
SalaryError(s) ==
    LET tok == split(s)
    IN  IF tok = <<>> THEN TRUE
        ELSE IF tok[1] = ot \/ tok[1] = do
             THEN Len(tok) < 2 \/ ValueError(tok[2])
        ELSE IF Len(split_sep(tok[1], "-")) = 2
             THEN ValueError(split_sep(tok[1], "-")[1]) \/ ValueError(split_sep(tok[1], "-")[2])
        ELSE IF s = NeUkazano THEN FALSE
        ELSE ValueError(tok[1])

\* _get_current_jobs_df, the five branches of the loop
MinMaxFrom(n) == [min_salary |-> n, max_salary |-> n]
\* "to N" read as "from N"
MinMaxToAsFrom(n) == [min_salary |-> n, max_salary |-> n]
MinMaxTo(n) == [min_salary |-> 0, max_salary |-> n]
MinMaxFork(n, m) == [min_salary |-> n, max_salary |-> m]
MinMaxNotSpecified == [min_salary |-> 0, max_salary |-> 0]
MinMaxFixed(n) == [min_salary |-> n, max_salary |-> n]

\* _get_current_jobs_df, the loop body, for a text it does not raise on
MinMax(s) ==
    LET tok == split(s)
        fork == split_sep(tok[1], "-")
    IN  IF tok[1] = ot THEN MinMaxFrom(int(tok[2]))
        ELSE IF tok[1] = do THEN MinMaxTo(int(tok[2]))
        ELSE IF Len(fork) = 2 THEN MinMaxFork(int(fork[1]), int(fork[2]))
        ELSE IF s = NeUkazano THEN MinMaxNotSpecified
        ELSE MinMaxFixed(int(tok[1]))

\* _find_salary_mean_and_median, the five branches of the loop
\* "from N" put into both pools, as the ranking reads it
PoolFromBoth(n) == [salaries_min |-> <<n>>, salaries_max |-> <<n>>]
PoolFrom(n) == [salaries_min |-> <<n>>, salaries_max |-> <<>>]
PoolTo(n) == [salaries_min |-> <<>>, salaries_max |-> <<n>>]
PoolFork(n, m) == [salaries_min |-> <<n>>, salaries_max |-> <<m>>]
PoolNotSpecified == [salaries_min |-> <<>>, salaries_max |-> <<>>]
PoolFixed(n) == [salaries_min |-> <<n>>, salaries_max |-> <<n>>]

\* _find_salary_mean_and_median, the loop body, for a text it does not raise on
Pool(s) ==
    LET tok == split(s)
        fork == split_sep(tok[1], "-")
    IN  IF tok[1] = ot THEN PoolFrom(int(tok[2]))
        ELSE IF tok[1] = do THEN PoolTo(int(tok[2]))
        ELSE IF Len(fork) = 2 THEN PoolFork(int(fork[1]), int(fork[2]))
        ELSE IF s = NeUkazano THEN PoolNotSpecified
        ELSE PoolFixed(int(tok[1]))

\* salaries_min and salaries_max after the loop over the first n listings
RECURSIVE Pools(_, _)
Pools(column, n) ==
    IF n = 0 THEN PoolNotSpecified
    ELSE [salaries_min |-> Pools(column, n - 1).salaries_min \o Pool(column[n]).salaries_min,
          salaries_max |-> Pools(column, n - 1).salaries_max \o Pool(column[n]).salaries_max]

RECURSIVE Sum(_)
Sum(pool) == IF pool = <<>> THEN 0 ELSE Head(pool) + Sum(Tail(pool))

\* round(num / den): Python rounds a half to the even neighbour
round(num, den) ==
    LET q == num \div den
        r == num % den
    IN  IF 2 * r < den THEN q
        ELSE IF 2 * r > den THEN q + 1
        ELSE IF q % 2 = 0 THEN q ELSE q + 1

\* the k-th smallest value of a pool
Kth(pool, k) ==
    CHOOSE v \in {pool[i] : i \in DOMAIN pool} :
        /\ Cardinality({i \in DOMAIN pool : pool[i] < v}) < k
        /\ Cardinality({i \in DOMAIN pool : pool[i] <= v}) >= k

\* round(pd.Series(pool).mean()); the mean of no value is NaN
Mean(pool) == IF pool = <<>> THEN NaT ELSE round(Sum(pool), Len(pool))

\* round(pd.Series(pool).median())
Median(pool) ==
    IF pool = <<>> THEN NaT
    ELSE IF Len(pool) % 2 = 1 THEN Kth(pool, (Len(pool) + 1) \div 2)
    ELSE round(Kth(pool, Len(pool) \div 2) + Kth(pool, Len(pool) \div 2 + 1), 2)

\* _find_salary_mean_and_median, after the loop
_find_salary_mean_and_median(column) ==
    LET salaries_min == Pools(column, Len(column)).salaries_min
        salaries_max == Pools(column, Len(column)).salaries_max
        salaries_all == salaries_min \o salaries_max
    IN  [salary_mean |-> Mean(salaries_all),
         salary_median |-> Median(salaries_all),
         min_salary_mean |-> Mean(salaries_min),
         max_salary_mean |-> Mean(salaries_max)]

\* _find_jobs_without_salary: the share of the listings whose text is the
\* phrase, a percentage with two decimals (held in hundredths of a percent)
_find_jobs_without_salary(column) ==
    round(Cardinality({i \in DOMAIN column : column[i] = NeUkazano}) * 10000, Len(column))

\* ----------------------------------------------------------------- ranking

\* _get_current_jobs_df: the columns min_salary, max_salary and mean_salary.
\* mean_salary is held doubled (min + max), which orders as (min + max) / 2
\* does; listing is the listing's place in the scrape
SalaryColumns(column) ==
    [i \in DOMAIN column |->
        [listing |-> i,
         salary |-> column[i],
         min_salary |-> MinMax(column[i]).min_salary,
         max_salary |-> MinMax(column[i]).max_salary,
         mean_salary |-> MinMax(column[i]).min_salary + MinMax(column[i]).max_salary]]

\* a may stand before b in the descending order of the three sort keys
KeysDescending(a, b) ==
    \/ a.mean_salary > b.mean_salary
    \/ /\ a.mean_salary = b.mean_salary
       /\ \/ a.max_salary > b.max_salary
          \/ a.max_salary = b.max_salary /\ a.min_salary >= b.min_salary

\* sorted by the mean alone
SortedByMeanOnly(rows) ==
    {s \in {[i \in 1..Len(rows) |-> rows[p[i]]] : p \in Permutations(1..Len(rows))} :
        \A i \in 1..(Len(s) - 1) : s[i].mean_salary >= s[i + 1].mean_salary}

\* df.sort_values(['mean_salary', 'max_salary', 'min_salary'], ascending=False):
\* the order of rows equal in all three keys is left open
SortedBySalary(rows) ==
    {s \in {[i \in 1..Len(rows) |-> rows[p[i]]] : p \in Permutations(1..Len(rows))} :
        \A i \in 1..(Len(s) - 1) : KeysDescending(s[i], s[i + 1])}

\* rows equal in the sort keys share a number (a competition ranking)
RowNumbersShared(rows) ==
    [i \in DOMAIN rows |->
        1 + Cardinality({j \in DOMAIN rows : ~KeysDescending(rows[i], rows[j])})]

\* df['row'] = list(range(1, len(df) + 1))
RowNumbers(rows) == [i \in DOMAIN rows |-> i]

\* _get_current_jobs_df: the frames the sort may give, with their row numbers
\* (min_salary, max_salary and mean_salary are kept, the stored frame drops
\* them)
_get_current_jobs_df(column) ==
    {[i \in DOMAIN s |->
        [row |-> RowNumbers(s)[i],
         listing |-> s[i].listing,
         salary |-> s[i].salary,
         min_salary |-> s[i].min_salary,
         max_salary |-> s[i].max_salary,
         mean_salary |-> s[i].mean_salary]] : s \in SortedBySalary(SalaryColumns(column))}

\* ---- the salary column of one run ---------------------------------------
\* The statistics and the ranking read the salary column alone, and the
\* reconciliation reads the columns date and href alone; the salary column
\* is followed here by itself, from the scrape to the two frames.

MaxSalaries == 3

sp == <<" ">>

\* the decimal digits of a number
RECURSIVE Numeral(_)
Numeral(n) ==
    IF n < 10 THEN <<Digits[n + 1]>>
    ELSE Numeral(n \div 10) \o <<Digits[(n % 10) + 1]>>

rub == <<"r", "u", "b", ".">>

\* the texts the page may show: the five families, a fork with its ends
\* swapped, and texts of no family
SalaryTexts ==
    {ot \o sp \o Numeral(100000),
     do \o sp \o Numeral(50000),
     Numeral(80000) \o <<"-">> \o Numeral(120000),
     NeUkazano,
     Numeral(70000),
     Numeral(40) \o <<"-">> \o Numeral(60),
     Numeral(60) \o <<"-">> \o Numeral(40),
     Numeral(30),
     ot \o sp \o Numeral(100000) \o sp \o rub,
     Numeral(70) \o sp \o <<"0", "0", "0">>,
     Numeral(100) \o <<",">> \o <<"0", "0", "0">>,
     <<"N", "e", " ", " ", "u", "k", "a", "z", "a", "n", "o">>,
     ot}

InitSalary ==
    /\ today = StartDay
    /\ pipeline \in {"flat", "class"}
    /\ pc = "parsed"
    /\ runs = 1
    /\ df = <<>>
    /\ df_unique_jobs = <<>>
    /\ df_merged = <<>>
    /\ df_unique_closed_jobs = <<>>
    /\ db = [t \in Tables |-> NoTable]
    /\ db_before = db
    /\ pg_unique_closed_jobs = <<>>
    /\ second = NoRun
    /\ salary \in SeqsUpTo(SalaryTexts, MaxSalaries) \ {<<>>}
    /\ df_parsing_results = <<>>
    /\ df_current_jobs = <<>>
    /\ site = NoSite
    /\ backoff = NoRequest

\* _get_parsing_results_df / _get_df_for_main_table: the row of the frame
data_for_update(column) ==
    [jobs_without_salary |-> _find_jobs_without_salary(column),
     salary_mean |-> _find_salary_mean_and_median(column).salary_mean,
     salary_median |-> _find_salary_mean_and_median(column).salary_median,
     min_salary_mean |-> _find_salary_mean_and_median(column).min_salary_mean,
     max_salary_mean |-> _find_salary_mean_and_median(column).max_salary_mean,
     jobs_count |-> Len(column)]

\* round() of a NaN mean gives NaN: the run goes on with it
ParsingResultsWithNaN ==
    /\ pc = "parsed"
    /\ salary # <<>>
    /\ IF \E i \in DOMAIN salary : SalaryError(salary[i])
       THEN /\ pc' = "aborted"
            /\ df_parsing_results' = <<>>
       ELSE /\ pc' = "results"
            /\ df_parsing_results' = <<data_for_update(salary)>>
    /\ UNCHANGED <<today, pipeline, runs, df, df_unique_jobs, df_merged,
                   df_unique_closed_jobs, db, db_before, pg_unique_closed_jobs,
                   second, salary, df_current_jobs, site, backoff>>

\* _get_parsing_results_df / _get_df_for_main_table: the run's row of
\* statistics. The mean of an empty pd.Series is the float nan, and round()
\* of it raises ValueError.
ProcessParsingResults ==
    /\ pc = "parsed"
    /\ salary # <<>>
    /\ LET pools == Pools(salary, Len(salary))
       IN  IF \E i \in DOMAIN salary : SalaryError(salary[i])
           THEN /\ pc' = "aborted"
                /\ df_parsing_results' = <<>>
           ELSE IF pools.salaries_min = <<>> \/ pools.salaries_max = <<>>
           THEN /\ pc' = "aborted"
                /\ df_parsing_results' = <<>>
           ELSE /\ pc' = "results"
                /\ df_parsing_results' = <<data_for_update(salary)>>
    /\ UNCHANGED <<today, pipeline, runs, df, df_unique_jobs, df_merged,
                   df_unique_closed_jobs, db, db_before, pg_unique_closed_jobs,
                   second, salary, df_current_jobs, site, backoff>>

\* _get_current_jobs_df / _get_df_for_jobs_table: the listings ranked (in
\* the flat pipeline only once parsing_results is written)
ProcessCurrentJobs ==
    /\ pc = "results"
    /\ pipeline = "flat" => db["parsing_results"].exists
    /\ IF \E i \in DOMAIN salary : SalaryError(salary[i])
       THEN /\ pc' = "aborted"
            /\ df_current_jobs' = <<>>
       ELSE /\ pc' = "ranked"
            /\ df_current_jobs' \in _get_current_jobs_df(salary)
    /\ UNCHANGED <<today, pipeline, runs, df, df_unique_jobs, df_merged,
                   df_unique_closed_jobs, db, db_before, pg_unique_closed_jobs,
                   second, salary, df_parsing_results, site, backoff>>

\* the write of the statistics: the first write of a run, in the class
\* pipeline after both frames are computed, in the flat one right after the
\* statistics
LoadParsingResults ==
    /\ ~db["parsing_results"].exists
    /\ \/ pipeline = "class" /\ pc = "ranked"
       \/ pipeline = "flat" /\ pc = "results"
    /\ db' = to_sql_append(db, "parsing_results", df_parsing_results)
    /\ UNCHANGED <<today, pipeline, pc, runs, df, df_unique_jobs, df_merged,
                   df_unique_closed_jobs, db_before, pg_unique_closed_jobs,
                   second, salary, df_parsing_results, df_current_jobs, site, backoff>>

\* the write of the ranked listings, the second write of a run
LoadCurrentJobs ==
    /\ pc = "ranked"
    /\ db["parsing_results"].exists
    /\ db' = to_sql_replace(db, "current_jobs", df_current_jobs)
    /\ pc' = "loaded"
    /\ UNCHANGED <<today, pipeline, runs, df, df_unique_jobs, df_merged,
                   df_unique_closed_jobs, db_before, pg_unique_closed_jobs,
                   second, salary, df_parsing_results, df_current_jobs, site, backoff>>

NextSalary ==
    \/ ProcessParsingResults
    \/ ProcessCurrentJobs
    \/ LoadParsingResults
    \/ LoadCurrentJobs

SpecSalary == InitSalary /\ [][NextSalary]_vars

\* ---- two runs that are not serialized --------------------------------
\* Two processes of the class pipeline (MainProcessor.run) on one database,
\* started from any snapshot; each reads the tables when it processes its
\* results and writes its four frames later, one statement at a time.

\* HhParser.run in the second process
Second_HhParser_run ==
    /\ second.pc = "idle"
    /\ \E raw \in RawPages :
         IF Len(raw) = 0
         THEN second' = [second EXCEPT !.pc = "aborted"]
         ELSE \E frame \in SortedByDate(_get_data_from_divs(raw, today)) :
                second' = [second EXCEPT !.pc = "parsed", !.df = frame]
    /\ UNCHANGED <<today, pipeline, pc, runs, df, df_unique_jobs, df_merged,
                   df_unique_closed_jobs, db, db_before, pg_unique_closed_jobs,
                   salary, df_parsing_results, df_current_jobs, site, backoff>>

\* HhParserResultsProcessor.run in the second process
Second_HhParserResultsProcessor_run ==
    /\ second.pc = "parsed"
    /\ second' = [second EXCEPT
                    !.pc = "parsing_results",
                    !.df_unique_jobs = _get_unique_jobs_df(db, second.df),
                    !.df_merged = ClosureCandidates(db, second.df, today),
                    !.df_unique_closed_jobs =
                        _get_unique_closed_jobs_df(db, ClosureCandidates(db, second.df, today)),
                    !.pg_unique_closed_jobs = get_table(db, "unique_closed_jobs")]
    /\ UNCHANGED <<today, pipeline, pc, runs, df, df_unique_jobs, df_merged,
                   df_unique_closed_jobs, db, db_before, pg_unique_closed_jobs,
                   salary, df_parsing_results, df_current_jobs, site, backoff>>

\* the order of the four _load_df_to_postgres calls
NextTable(name) ==
    CASE name = "parsing_results" -> "current_jobs"
      [] name = "current_jobs" -> "unique_jobs"
      [] name = "unique_jobs" -> "unique_closed_jobs"
      [] name = "unique_closed_jobs" -> "done"

\* MainProcessor._load_df_to_postgres in the second process: the next of its
\* four writes
Second_load_df_to_postgres ==
    /\ second.pc \in Tables
    /\ db' = CASE second.pc = "parsing_results" ->
                    to_sql_append(db, "parsing_results", _get_parsing_results_df(second.df))
               [] second.pc = "current_jobs" ->
                    to_sql_replace(db, "current_jobs", second.df)
               [] second.pc = "unique_jobs" ->
                    to_sql_append(db, "unique_jobs", second.df_unique_jobs)
               [] second.pc = "unique_closed_jobs" ->
                    to_sql_append(db, "unique_closed_jobs", second.df_unique_closed_jobs)
    /\ second' = [second EXCEPT !.pc = NextTable(second.pc)]
    /\ UNCHANGED <<today, pipeline, pc, runs, df, df_unique_jobs, df_merged,
                   df_unique_closed_jobs, db_before, pg_unique_closed_jobs,
                   salary, df_parsing_results, df_current_jobs, site, backoff>>

\* any unique_jobs, no listing closed yet
InitConcurrent ==
    /\ today = StartDay
    /\ pipeline = "class"
    /\ pc = "idle"
    /\ runs = MaxRuns - 1
    /\ df = <<>>
    /\ df_unique_jobs = <<>>
    /\ df_merged = <<>>
    /\ df_unique_closed_jobs = <<>>
    /\ \E u \in PriorTables(UniqueRows, MaxPrior) :
         db = [t \in Tables |-> IF t = "unique_jobs" THEN u ELSE NoTable]
    /\ db_before = db
    /\ pg_unique_closed_jobs = <<>>
    /\ InitOthers

NextConcurrent ==
    \/ HhParser_run
    \/ HhParserResultsProcessor_run
    \/ SetParsingResults
    \/ SetCurrentJobs
    \/ SetUniqueJobs
    \/ SetUniqueClosedJobs
    \/ Second_HhParser_run
    \/ Second_HhParserResultsProcessor_run
    \/ Second_load_df_to_postgres

SpecConcurrent == InitConcurrent /\ [][NextConcurrent]_vars

\* ---- the scrape, request by request ----------------------------------
\* The result pages of one search as hh.ru serves them to one run: the
\* answer to the start request, and for each page URL the outcome of its
\* retry loop and the listings the page shows.

MaxPages == 2
MaxPageListings == 2

\* a day the calendar does not have: strptime('%d.%m.%Y') raises ValueError
NoSuchDay == YearLen

SiteListing == [date : RawDates \cup {NoSuchDay}, href : Hrefs]

\* status "failed": __exponential_backoff returned False for the URL (the
\* dates of a page that was not received play no part)
Page ==
    [status : {"ok"}, listings : SeqsUpTo(SiteListing, MaxPageListings)]
    \cup [status : {"failed"},
          listings : SeqsUpTo([date : {0}, href : Hrefs], MaxPageListings)]

Sites == [start : {"ok", "failed"}, pages : SeqsUpTo(Page, MaxPages) \ {<<>>}]

\* _process_date / _date_str_to_date raises on one of the listings
DateError(listings) == \E i \in DOMAIN listings : listings[i].date = NoSuchDay

\* the listings of pages that were received and whose dates all parse
RECURSIVE JobsOf(_, _)
JobsOf(pages, now) ==
    IF pages = <<>> THEN <<>>
    ELSE LET page == Head(pages)
             rest == JobsOf(Tail(pages), now)
         IN  IF page.status = "ok" /\ ~DateError(page.listings)
             THEN _get_data_from_divs(page.listings, now) \o rest
             ELSE rest

\* the extraction of a page raises and nothing catches it
ParseRaises(s) ==
    \E i \in DOMAIN s.pages : s.pages[i].status = "failed" \/ DateError(s.pages[i].listings)

\* the class scrape leaving a failed page out, as the flat one does
RunSkipsFailedPages(s, now) ==
    [raised |-> Len(JobsOf(s.pages, now)) = 0, jobs |-> JobsOf(s.pages, now)]

\* HhParser.run (class): a failed request raises RuntimeError, an exception
\* of the extraction propagates, no listing raises RuntimeError
run(s, now) ==
    IF s.start = "failed" \/ ParseRaises(s)
    THEN [raised |-> TRUE, jobs |-> <<>>]
    ELSE [raised |-> Len(JobsOf(s.pages, now)) = 0, jobs |-> JobsOf(s.pages, now)]

\* the URLs HhParser.parse (flat) requests: the base URL alone when the
\* start request failed
urls(s) == IF s.start = "ok" THEN s.pages ELSE SubSeq(s.pages, 1, 1)

\* the flat scrape with the class pipeline's handling of a failed page
ParseAborts(s, now) == run(s, now)

\* HhParser.parse (flat): a page whose request failed, or whose extraction
\* raised, is left out (log.debug); no listing at all raises RuntimeError
parse(s, now) ==
    [raised |-> Len(JobsOf(urls(s), now)) = 0, jobs |-> JobsOf(urls(s), now)]

\* HhParser.run / HhParser.parse, page by page
Scrape ==
    /\ pc = "idle"
    /\ runs < MaxRuns
    /\ runs' = runs + 1
    /\ db_before' = db
    /\ \E s \in Sites :
         LET result == IF pipeline = "class" THEN run(s, today) ELSE parse(s, today)
         IN  /\ site' = s
             /\ IF result.raised
                THEN /\ pc' = "aborted"
                     /\ df' = <<>>
                ELSE /\ pc' = "parsed"
                     /\ df' \in SortedByDate(result.jobs)
    /\ df_unique_jobs' = <<>>
    /\ df_merged' = <<>>
    /\ df_unique_closed_jobs' = <<>>
    /\ pg_unique_closed_jobs' = <<>>
    /\ UNCHANGED <<today, pipeline, db, second, salary, df_parsing_results,
                   df_current_jobs, backoff>>

\* snapshots the run starts from: listings first seen the day before, at
\* most one of them closed
FetchUnique == PriorTables([date : {StartDay - 1}, href : Hrefs], MaxPrior)

FetchClosed ==
    PriorTables({r \in ClosedRows : r.publication_date = StartDay - 1 /\ r.date_diff = 0},
                MaxPriorClosed)

InitFetch ==
    /\ today = StartDay
    /\ pipeline \in {"flat", "class"}
    /\ pc = "idle"
    /\ runs = MaxRuns - 1
    /\ df = <<>>
    /\ df_unique_jobs = <<>>
    /\ df_merged = <<>>
    /\ df_unique_closed_jobs = <<>>
    /\ \E u \in FetchUnique, c \in FetchClosed :
         db = [t \in Tables |-> IF t = "unique_jobs" THEN u
                                ELSE IF t = "unique_closed_jobs" THEN c
                                ELSE NoTable]
    /\ db_before = db
    /\ pg_unique_closed_jobs = <<>>
    /\ InitOthers

NextFetch ==
    \/ Scrape
    \/ HhParserResultsProcessor_run
    \/ DataEtl_save_report_file
    \/ SetParsingResults
    \/ SetCurrentJobs
    \/ SetUniqueJobs
    \/ SetUniqueClosedJobs

SpecFetch == InitFetch /\ [][NextFetch]_vars

\* ---- the retry loop of one URL ------------------------------------------
\* __exponential_backoff (the same loop in both pipelines): the statuses
\* the server answers to the successive GET requests are drawn beforehand.

\* for n in range(0, 5)
Attempts == 5

\* the statuses the loop waits and tries again after
Retryable == {403, 500, 503}

Statuses == Retryable \cup {200, 404}

\* any other status than 200 is tried again
GetRetriesAnyError ==
    /\ backoff.returned = "none"
    /\ backoff.n < Attempts
    /\ LET status == backoff.statuses[backoff.gets + 1]
       IN  backoff' = [backoff EXCEPT
                         !.gets = @ + 1,
                         !.n = IF status # 200 THEN @ + 1 ELSE @,
                         !.returned = IF status = 200 THEN "response" ELSE "none"]
    /\ UNCHANGED <<today, pipeline, pc, runs, df, df_unique_jobs, df_merged,
                   df_unique_closed_jobs, db, db_before, pg_unique_closed_jobs,
                   second, salary, df_parsing_results, df_current_jobs, site>>

\* one pass of the loop: the GET, then the sleep (2 ** n seconds and a
\* fraction) and the next n, or the return
Get ==
    /\ backoff.returned = "none"
    /\ backoff.n < Attempts
    /\ LET status == backoff.statuses[backoff.gets + 1]
       IN  backoff' = [backoff EXCEPT
                         !.gets = @ + 1,
                         !.n = IF status \in Retryable THEN @ + 1 ELSE @,
                         !.returned = IF status \in Retryable THEN "none"
                                      ELSE IF status = 200 THEN "response"
                                      ELSE "False"]
    /\ UNCHANGED <<today, pipeline, pc, runs, df, df_unique_jobs, df_merged,
                   df_unique_closed_jobs, db, db_before, pg_unique_closed_jobs,
                   second, salary, df_parsing_results, df_current_jobs, site>>

\* the loop is exhausted: return False
GiveUp ==
    /\ backoff.returned = "none"
    /\ backoff.n = Attempts
    /\ backoff' = [backoff EXCEPT !.returned = "False"]
    /\ UNCHANGED <<today, pipeline, pc, runs, df, df_unique_jobs, df_merged,
                   df_unique_closed_jobs, db, db_before, pg_unique_closed_jobs,
                   second, salary, df_parsing_results, df_current_jobs, site>>

InitBackoff ==
    /\ today = StartDay
    /\ pipeline \in {"flat", "class"}
    /\ pc = "idle"
    /\ runs = 1
    /\ df = <<>>
    /\ df_unique_jobs = <<>>
    /\ df_merged = <<>>
    /\ df_unique_closed_jobs = <<>>
    /\ db = [t \in Tables |-> NoTable]
    /\ db_before = db
    /\ pg_unique_closed_jobs = <<>>
    /\ second = NoRun
    /\ salary = <<>>
    /\ df_parsing_results = <<>>
    /\ df_current_jobs = <<>>
    /\ site = NoSite
    /\ \E answers \in [1..Attempts -> Statuses] :
         backoff = [NoRequest EXCEPT !.statuses = answers]

NextBackoff ==
    \/ Get
    \/ GiveUp

\* time.sleep returns and the server answers every request: a pass of the
\* loop that can be taken is taken
SpecBackoff == InitBackoff /\ [][NextBackoff]_vars /\ WF_vars(NextBackoff)

\* ---- a run, and the same listings once more ---------------------------
\* After a run that succeeded the service is started again and hh.ru shows
\* the listings it showed to that run: the process ends and HhParser.run
\* (HhParser.parse) returns the same frame.
Rerun ==
    /\ pc = "done"
    /\ runs = MaxRuns
    /\ runs' = runs + 1
    /\ pc' = "parsed"
    /\ db_before' = db
    /\ df_unique_jobs' = <<>>
    /\ df_merged' = <<>>
    /\ df_unique_closed_jobs' = <<>>
    /\ pg_unique_closed_jobs' = <<>>
    /\ UNCHANGED <<today, pipeline, df, db>>
    /\ UNCHANGED others

NextRerun ==
    \/ Next
    \/ Rerun

SpecRerun == InitReconcile /\ [][NextRerun]_vars

\* ------------------------------------------------------------- the claims

RowSet(rows) == {rows[i] : i \in DOMAIN rows}
HrefsOf(rows) == {rows[i].href : i \in DOMAIN rows}

\* the snapshots the run in progress started from
prior_unique == db_before["unique_jobs"].rows
prior_closed == db_before["unique_closed_jobs"].rows

\* the run in progress has computed its new_unique / its new_closed delta
UniqueComputed ==
    \/ pc = "done"
    \/ pipeline = "class" /\ pc \in Tables
    \/ pipeline = "flat" /\ pc = "unique_closed_jobs"
ClosedComputed ==
    \/ pc = "done"
    \/ pipeline = "class" /\ pc \in Tables

OneRecordPerHref(rows) ==
    \A i, j \in DOMAIN rows : rows[i].href = rows[j].href => i = j

IsPrefix(s, t) == Len(s) <= Len(t) /\ \A i \in DOMAIN s : s[i] = t[i]

\* C1: after any sequence of serialized runs from empty snapshots,
\* unique_jobs holds at most one record per href, also when a run's listings
\* hold the same href more than once. The code does not keep this.
C1_UniqueJobsOneRecordPerHref == OneRecordPerHref(db["unique_jobs"].rows)

\* C2: after any sequence of serialized runs from empty snapshots,
\* unique_closed_jobs holds at most one record per href, whatever the runs'
\* listings are. The code does not keep this (the duplicates of C1 are
\* closed twice).
C2_ClosedJobsOneRecordPerHref == OneRecordPerHref(db["unique_closed_jobs"].rows)

\* C3: in one reconcile step a closure candidate whose href is already in
\* prior_closed is not emitted in new_closed, and every candidate whose href
\* is absent from prior_closed is emitted.
C3_ClosedNotReemitted ==
    ClosedComputed =>
        /\ HrefsOf(df_unique_closed_jobs) \cap HrefsOf(prior_closed) = {}
        /\ RowSet(df_unique_closed_jobs) =
               {c \in RowSet(df_merged) : c.href \notin HrefsOf(prior_closed)}

\* a candidate that is closed already, in a run that has listings
C3_Witness ==
    /\ ClosedComputed
    /\ df # <<>>
    /\ \E c \in RowSet(df_merged) : c.href \in HrefsOf(prior_closed)

\* C4: no href of the run's current listings appears in the run's
\* new_closed delta, whatever prior_unique and prior_closed hold.
C4_CurrentNotClosed ==
    ClosedComputed => HrefsOf(df_unique_closed_jobs) \cap HrefsOf(df) = {}

C4_Witness ==
    /\ ClosedComputed
    /\ df_unique_closed_jobs # <<>>
    /\ HrefsOf(df) \cap HrefsOf(prior_unique) # {}

\* C5: the hrefs of new_unique are exactly the hrefs of current that are
\* absent from prior_unique, and each emitted record carries the date its
\* href has in current (the publication date, not the run date).
C5_NewUnique ==
    UniqueComputed =>
        /\ HrefsOf(df_unique_jobs) = HrefsOf(df) \ HrefsOf(prior_unique)
        /\ RowSet(df_unique_jobs) =
               {r \in RowSet(df) : r.href \notin HrefsOf(prior_unique)}

C5_Witness ==
    /\ UniqueComputed
    /\ HrefsOf(df) \cap HrefsOf(prior_unique) # {}
    /\ \E r \in RowSet(df_unique_jobs) : r.date # today

\* C6: the closure candidates are exactly the hrefs of prior_unique absent
\* from current; a candidate's closing_date is the run's date, its
\* publication_date the date stored for the href in prior_unique, and its
\* date_diff the days from publication_date to closing_date.
C6_ClosureCandidates ==
    ClosedComputed =>
        /\ HrefsOf(df_merged) = HrefsOf(prior_unique) \ HrefsOf(df)
        /\ RowSet(df_merged) =
               {[href |-> u.href, publication_date |-> u.date, closing_date |-> today,
                 date_diff |-> today - u.date] :
                    u \in {v \in RowSet(prior_unique) : v.href \notin HrefsOf(df)}}

C6_Witness ==
    /\ ClosedComputed
    /\ HrefsOf(df) \cap HrefsOf(prior_unique) # {}
    /\ \E c \in RowSet(df_merged) : c.date_diff > 0

\* C7: every record of unique_closed_jobs has date_diff = closing_date -
\* publication_date and date_diff >= 0, the clock never going back and the
\* listings' years inferred by the fetcher.
C7_LifetimeNonNegative ==
    \A r \in RowSet(db["unique_closed_jobs"].rows) :
        /\ r.date_diff = r.closing_date - r.publication_date
        /\ r.date_diff >= 0

\* a closed listing whose date was put into the previous year
C7_Witness ==
    \E r \in RowSet(db["unique_closed_jobs"].rows) :
        Year(r.publication_date) < Year(r.closing_date)

\* C8: cold start. With unique_jobs missing or empty the reconciliation goes
\* through: new_unique is every listing of current with its date and
\* new_closed is empty; a missing or empty unique_closed_jobs is read as
\* empty, so that every closure candidate is new.
C8_ColdStart ==
    /\ UniqueComputed /\ prior_unique = <<>> =>
            /\ Len(df_unique_jobs) = Len(df)
            /\ RowSet(df_unique_jobs) = RowSet(df)
    /\ ClosedComputed /\ prior_unique = <<>> => df_unique_closed_jobs = <<>>
    /\ ClosedComputed /\ prior_closed = <<>> => df_unique_closed_jobs = df_merged

\* the first run: neither table exists, two listings of one date
C8_Witness ==
    /\ pc = "done"
    /\ ~db_before["unique_jobs"].exists
    /\ ~db_before["unique_closed_jobs"].exists
    /\ Len(df) = 2
    /\ df[1].href # df[2].href
    /\ df[1].date = df[2].date

\* C9: a run performs all four table writes or none: after a run has
\* aborted no table differs from its state before the run. The code does
\* not keep this.
C9_AllOrNothing == pc = "aborted" => db = db_before

\* C10: the snapshots are append-only: every record unique_jobs or
\* unique_closed_jobs held before the run is there unchanged, a unique
\* record with its first date also when the listing's date now differs.
C10_AppendOnly ==
    \A t \in {"unique_jobs", "unique_closed_jobs"} :
        /\ IsPrefix(db_before[t].rows, db[t].rows)
        /\ db_before[t].exists => db[t].exists

\* a run that closes a listing while an earlier closed record exists and a
\* listing it has seen before shows another date
C10_Witness ==
    /\ pc = "done"
    /\ prior_closed # <<>>
    /\ Len(db["unique_closed_jobs"].rows) > Len(prior_closed)
    /\ \E r \in RowSet(df), u \in RowSet(prior_unique) : r.href = u.href /\ r.date # u.date

\* records of one href in a frame
CountOf(rows, h) == Len(KeyRows(rows, h))

\* C11: two runs that are not serialized. The table ends as the two deltas
\* appended one after the other (no lock, no check at write time), so when
\* both runs read unique_closed_jobs before either appended (both read it
\* empty), a href that is a closure candidate of both is recorded twice.
C11_ConcurrentRunsCloseTwice ==
    (pc = "done" /\ second.pc = "done") =>
        /\ db["unique_closed_jobs"].rows \in
               {df_unique_closed_jobs \o second.df_unique_closed_jobs,
                second.df_unique_closed_jobs \o df_unique_closed_jobs}
        /\ (pg_unique_closed_jobs = <<>> /\ second.pg_unique_closed_jobs = <<>>) =>
               \A h \in HrefsOf(df_merged) \cap HrefsOf(second.df_merged) :
                   CountOf(db["unique_closed_jobs"].rows, h) >= 2

\* unique_jobs holds the href once, unique_closed_jobs twice
C11_Witness ==
    /\ pc = "done"
    /\ second.pc = "done"
    /\ \E h \in Hrefs :
         /\ CountOf(db["unique_jobs"].rows, h) = 1
         /\ CountOf(db["unique_closed_jobs"].rows, h) = 2
         /\ h \in HrefsOf(df_unique_closed_jobs) \cap HrefsOf(second.df_unique_closed_jobs)

\* C12: a run that completes creates the closed record of a href exactly when
\* the href has a unique record from an earlier run, is absent from the run's
\* listings and has no closed record yet (the first such run); the record's
\* closing_date is the run's date. For every other href the run creates no
\* closed record, and it changes no record there is.
C12_ClosedInFirstRunWithoutHref ==
    pc = "done" =>
        \A h \in Hrefs :
            LET before == KeyRows(prior_closed, h)
                after == KeyRows(db["unique_closed_jobs"].rows, h)
            IN  /\ IsPrefix(before, after)
                /\ IF h \in HrefsOf(prior_unique) /\ h \notin HrefsOf(df) /\ before = <<>>
                   THEN /\ Len(after) = CountOf(prior_unique, h)
                        /\ \A i \in DOMAIN after : after[i].closing_date = today
                   ELSE after = before

\* a run on a later day closes one listing while another, closed long ago,
\* is listed again
C12_Witness ==
    /\ pc = "done"
    /\ today > StartDay
    /\ \E h \in HrefsOf(prior_unique) \ (HrefsOf(df) \cup HrefsOf(prior_closed)) :
         \E r \in RowSet(db["unique_closed_jobs"].rows) : r.href = h /\ r.closing_date = today
    /\ HrefsOf(prior_closed) \cap HrefsOf(df) # {}

\* ---- salary: the texts of the five families, written out ---------------

\* the amounts the texts of SalaryTexts show
Amounts == {30, 40, 60, 50000, 70000, 80000, 100000, 120000}

TextFrom(n) == ot \o sp \o Numeral(n)
TextTo(n) == do \o sp \o Numeral(n)
TextFork(n, m) == Numeral(n) \o <<"-">> \o Numeral(m)
TextFixed(n) == Numeral(n)

\* the text is of one of the five families, and nothing else
IsFamilyText(s) ==
    \/ s = NeUkazano
    \/ \E n \in Amounts : s \in {TextFrom(n), TextTo(n), TextFixed(n)}
    \/ \E n, m \in Amounts : s = TextFork(n, m)

\* the run has its statistics / its ranking
Aggregated == pc \in {"results", "ranked"} /\ df_parsing_results # <<>>
Ranked == pc = "ranked"

\* C14: on the ranking path 'from N' gives (N, N), 'to N' gives (0, N),
\* 'N-M' gives (N, M), the phrase 'not specified' gives (0, 0) and counts as
\* a listing without salary, and 'N' gives (N, N).
C14_SalaryFamilies ==
    /\ Ranked =>
        \A k \in DOMAIN df_current_jobs :
            LET r == df_current_jobs[k]
            IN  /\ \A n \in Amounts :
                    /\ r.salary = TextFrom(n) => r.min_salary = n /\ r.max_salary = n
                    /\ r.salary = TextTo(n) => r.min_salary = 0 /\ r.max_salary = n
                    /\ r.salary = TextFixed(n) => r.min_salary = n /\ r.max_salary = n
                    /\ \A m \in Amounts :
                           r.salary = TextFork(n, m) => r.min_salary = n /\ r.max_salary = m
                /\ r.salary = NeUkazano => r.min_salary = 0 /\ r.max_salary = 0
    /\ (Aggregated /\ \A i \in DOMAIN salary : salary[i] = NeUkazano) =>
            df_parsing_results[1].jobs_without_salary = 10000

\* a ranked run with an upper bound, a fork and a listing without salary
C14_Witness ==
    /\ Ranked
    /\ \E i, j, k \in DOMAIN df_current_jobs :
         /\ df_current_jobs[i].salary = TextTo(50000)
         /\ df_current_jobs[i].max_salary = 50000
         /\ df_current_jobs[j].salary = TextFork(80000, 120000)
         /\ df_current_jobs[k].salary = NeUkazano

\* C15: every listing whose text is accepted as a specified salary has
\* min_salary <= max_salary. The code does not keep this for a fork 'N-M'
\* with N > M.
C15_MinNotAboveMax ==
    Ranked =>
        \A k \in DOMAIN df_current_jobs :
            df_current_jobs[k].salary # NeUkazano =>
                df_current_jobs[k].min_salary <= df_current_jobs[k].max_salary

\* C16: a text of none of the five families is an error: no run whose
\* column holds such a text gets statistics or a ranking. The code does not
\* keep this (tokens after the ones it reads are ignored).
C16_MalformedTextIsError ==
    (Aggregated \/ Ranked) => \A i \in DOMAIN salary : IsFamilyText(salary[i])

\* the value a text of a family adds to the min pool / to the max pool
RefMin(s) ==
    IF \E n \in Amounts : s \in {TextFrom(n), TextFixed(n)}
    THEN <<CHOOSE n \in Amounts : s \in {TextFrom(n), TextFixed(n)}>>
    ELSE IF \E n, m \in Amounts : s = TextFork(n, m)
    THEN <<CHOOSE n \in Amounts : \E m \in Amounts : s = TextFork(n, m)>>
    ELSE <<>>
RefMax(s) ==
    IF \E n \in Amounts : s \in {TextTo(n), TextFixed(n)}
    THEN <<CHOOSE n \in Amounts : s \in {TextTo(n), TextFixed(n)}>>
    ELSE IF \E n, m \in Amounts : s = TextFork(n, m)
    THEN <<CHOOSE m \in Amounts : \E n \in Amounts : s = TextFork(n, m)>>
    ELSE <<>>

RECURSIVE RefPool(_, _, _)
RefPool(Ref(_), column, n) ==
    IF n = 0 THEN <<>> ELSE RefPool(Ref, column, n - 1) \o Ref(column[n])

\* C17: with the min pool holding N of every 'from N', 'N-M' and 'N', and the
\* max pool holding N of every 'to N', M of every 'N-M' and N of every 'N'
\* (a listing without salary adds to neither), salary_mean and salary_median
\* are the rounded mean and median of the two pools put together,
\* min_salary_mean the mean of the min pool, max_salary_mean that of the max
\* pool.
C17_AggregationPools ==
    (Aggregated /\ \A i \in DOMAIN salary : IsFamilyText(salary[i])) =>
        LET min_pool == RefPool(RefMin, salary, Len(salary))
            max_pool == RefPool(RefMax, salary, Len(salary))
        IN  /\ df_parsing_results[1].salary_mean = Mean(min_pool \o max_pool)
            /\ df_parsing_results[1].salary_median = Median(min_pool \o max_pool)
            /\ df_parsing_results[1].min_salary_mean = Mean(min_pool)
            /\ df_parsing_results[1].max_salary_mean = Mean(max_pool)

\* statistics of a lower bound, an upper bound and a listing without salary
C17_Witness ==
    /\ Aggregated
    /\ Len(salary) = 3
    /\ \E i, j, k \in DOMAIN salary :
         /\ salary[i] = TextFrom(100000)
         /\ salary[j] = TextTo(50000)
         /\ salary[k] = NeUkazano
    /\ df_parsing_results[1].min_salary_mean = 100000
    /\ df_parsing_results[1].max_salary_mean = 50000
    /\ df_parsing_results[1].salary_mean = 75000

\* C19: in the ranked frame a listing stands before another only if its
\* (min + max) / 2 is greater, or equal with a greater max, or equal in both
\* with a greater or equal min; listings with min = max = 0 stand after
\* every listing of a positive mean; and the listings of means 50, 50, 30
\* and max 60, 40, 30 come out as the 60-max one, the 40-max one, the 30.
C19_RankingOrder ==
    Ranked =>
        /\ \A i, j \in DOMAIN df_current_jobs :
               i < j =>
                   LET a == df_current_jobs[i]
                       b == df_current_jobs[j]
                   IN  \/ a.min_salary + a.max_salary > b.min_salary + b.max_salary
                       \/ /\ a.min_salary + a.max_salary = b.min_salary + b.max_salary
                          /\ a.max_salary >= b.max_salary
                          /\ a.max_salary = b.max_salary => a.min_salary >= b.min_salary
        /\ \A i, j \in DOMAIN df_current_jobs :
               (/\ df_current_jobs[i].min_salary = 0
                /\ df_current_jobs[i].max_salary = 0
                /\ df_current_jobs[j].min_salary + df_current_jobs[j].max_salary > 0) => j < i
        /\ {salary[i] : i \in DOMAIN salary} = {TextFork(40, 60), TextFork(60, 40), TextFixed(30)}
               /\ Len(salary) = 3 =>
                   /\ df_current_jobs[1].salary = TextFork(40, 60)
                   /\ df_current_jobs[2].salary = TextFork(60, 40)
                   /\ df_current_jobs[3].salary = TextFixed(30)

\* the scenario, scraped in another order than the ranking's
C19_Witness ==
    /\ Ranked
    /\ salary = <<TextFixed(30), TextFork(60, 40), TextFork(40, 60)>>
    /\ df_current_jobs[1].max_salary = 60

\* C20: the k-th row of the ranked frame has row number k, the frame has
\* every listing of the run once, so the numbers are 1..n with no number
\* shared and none left out, also among listings equal in every sort key.
C20_RowNumbers ==
    Ranked =>
        /\ Len(df_current_jobs) = Len(salary)
        /\ \A k \in DOMAIN df_current_jobs : df_current_jobs[k].row = k
        /\ {df_current_jobs[k].listing : k \in DOMAIN df_current_jobs} = DOMAIN salary

\* three listings, two of them equal in every sort key
C20_Witness ==
    /\ Ranked
    /\ Len(df_current_jobs) = 3
    /\ df_current_jobs[1].mean_salary = df_current_jobs[2].mean_salary
    /\ df_current_jobs[1].max_salary = df_current_jobs[2].max_salary
    /\ df_current_jobs[1].min_salary = df_current_jobs[2].min_salary
    /\ df_current_jobs[1].listing > df_current_jobs[2].listing

\* C18: a run that extracts no listing ends with the error at once: no
\* frame is computed (no statistics, no reconciliation), no table is
\* written, and the process ends without scraping again.
C18_EmptyRunAborts ==
    /\ [](pc # "idle" /\ df = <<>> =>
            /\ pc = "aborted"
            /\ db = db_before
            /\ df_unique_jobs = <<>>
            /\ df_merged = <<>>
            /\ df_unique_closed_jobs = <<>>)
    /\ [][pc = "aborted" /\ df = <<>> => pc' = "idle" /\ runs' = runs /\ db' = db]_vars

\* no listing found while unique_jobs holds listings that are not closed
C18_Witness ==
    /\ pc = "aborted"
    /\ df = <<>>
    /\ db["unique_jobs"].rows # <<>>
    /\ db["unique_closed_jobs"].rows = <<>>

\* ---- claims on the scrape -----------------------------------------------

\* a page the run received that shows a listing whose date does not parse
UnparsablePages ==
    {i \in DOMAIN site.pages :
        /\ site.pages[i].status = "ok"
        /\ DateError(site.pages[i].listings)
        /\ pipeline = "flat" => i \in DOMAIN urls(site)}

\* C21: a run that meets a listing whose publication date cannot be parsed
\* aborts and writes nothing; the listing's page is never left out of a run
\* that goes on (in both pipelines).
C21_UnparsableDateAborts ==
    UnparsablePages # {} => pc = "aborted" /\ db = db_before

\* ---- claims on the tables of a run that succeeded ----------------------

\* C22: after a run that succeeded, current_jobs holds the listings of that
\* run, one row each, and no row of an earlier run; parsing_results holds
\* the rows it held before the run and one more, the run's own.
C22_CurrentReplacedResultsAppended ==
    pc = "done" =>
        /\ db["current_jobs"].exists
        /\ db["current_jobs"].rows = df
        /\ db["parsing_results"].rows =
               db_before["parsing_results"].rows \o <<[jobs_count |-> Len(df)]>>

\* a second run that succeeded, after a first one that left other rows in
\* current_jobs
C22_Witness ==
    /\ pc = "done"
    /\ db_before["current_jobs"].rows # <<>>
    /\ db_before["current_jobs"].rows # df
    /\ Len(db_before["parsing_results"].rows) = 1
    /\ Len(db["parsing_results"].rows) = 2

\* pages of the site whose listings the flat scrape left out: not requested
\* (the start request failed), not received, or not extracted
FailedPages ==
    {i \in DOMAIN site.pages :
        \/ i \notin DOMAIN urls(site)
        \/ site.pages[i].status = "failed"
        \/ DateError(site.pages[i].listings)}

\* pages the flat scrape took listings from
RemainingPages == {i \in DOMAIN site.pages \ FailedPages : site.pages[i].listings # <<>>}

\* hrefs shown on a failed page and on no page that was extracted
OnlyOnFailedPages ==
    UNION {HrefsOf(site.pages[i].listings) : i \in FailedPages} \ HrefsOf(df)

\* C23: in the flat pipeline a run with a failed page goes on with the
\* listings of the remaining pages, and every href that unique_jobs holds,
\* unique_closed_jobs does not, and that was shown on failed pages only, is
\* appended to unique_closed_jobs, with the records held before kept.
C23_FailedPageClosesOpenListings ==
    pipeline = "flat" /\ FailedPages # {} =>
        /\ RemainingPages # {} => pc # "aborted"
        /\ pc = "done" =>
             /\ \A h \in OnlyOnFailedPages :
                    h \in HrefsOf(prior_unique) /\ h \notin HrefsOf(prior_closed) =>
                        /\ h \in HrefsOf(df_unique_closed_jobs)
                        /\ h \in HrefsOf(db["unique_closed_jobs"].rows)
             /\ IsPrefix(prior_closed, db["unique_closed_jobs"].rows)

\* page 2 was not received; a listing it shows, known and not closed, is
\* closed by the run, next to a record closed earlier
C23_Witness ==
    /\ pipeline = "flat"
    /\ pc = "done"
    /\ site.start = "ok"
    /\ Len(site.pages) = 2
    /\ site.pages[2].status = "failed"
    /\ prior_closed # <<>>
    /\ \E h \in OnlyOnFailedPages :
          /\ h \in HrefsOf(prior_unique)
          /\ h \notin HrefsOf(prior_closed)
          /\ h \in HrefsOf(df_unique_closed_jobs)

\* a request of the run was not answered: the start request, or a page's
FailedRequest ==
    \/ site.start = "failed"
    \/ \E i \in DOMAIN site.pages : site.pages[i].status = "failed"

\* C24: in the class pipeline a failed request, for the start page or for
\* any result page, ends the run before the results are processed: no frame
\* is computed, no table is written and no listing is closed.
C24_FailedRequestAbortsClassRun ==
    pipeline = "class" /\ FailedRequest =>
        /\ pc = "aborted"
        /\ df = <<>>
        /\ df_unique_jobs = <<>>
        /\ df_merged = <<>>
        /\ df_unique_closed_jobs = <<>>
        /\ db = db_before

\* page 1 was received and shows a listing, page 2 was not received; a
\* listing unique_jobs holds is not among those of page 1
C24_Witness ==
    /\ pipeline = "class"
    /\ pc = "aborted"
    /\ site.start = "ok"
    /\ Len(site.pages) = 2
    /\ site.pages[1].status = "ok"
    /\ site.pages[1].listings # <<>>
    /\ ~DateError(site.pages[1].listings)
    /\ site.pages[2].status = "failed"
    /\ HrefsOf(prior_unique) \ HrefsOf(site.pages[1].listings) # {}
    /\ HrefsOf(prior_closed) = {}

\* ---- claims on the retry loop -------------------------------------------

\* the first request whose answer the loop does not retry after, or the
\* last request of the loop
LastGet ==
    LET final == {i \in 1..Attempts : backoff.statuses[i] \notin Retryable}
    IN  IF final = {} THEN Attempts
        ELSE CHOOSE i \in final : \A j \in final : i <= j

\* C25: the retry loop of a URL makes at most 5 GET requests and ends: it
\* tries again only after 403, 500 or 503, returns the response at the first
\* 200, False at the first other status, and False after 5 answers of
\* 403/500/503.
C25_RetryLoopEnds ==
    /\ [](/\ backoff.gets <= LastGet
          /\ LastGet <= Attempts
          /\ backoff.returned # "none" =>
                /\ backoff.gets = LastGet
                /\ backoff.returned = "response" <=> backoff.statuses[LastGet] = 200)
    /\ <>(backoff.returned # "none")

\* four answers of 403/500/503, then a 200 that is returned
C25_Witness ==
    /\ backoff.gets = Attempts
    /\ backoff.returned = "response"
    /\ \A i \in 1..(Attempts - 1) : backoff.statuses[i] \in Retryable

\* ---- claims on a run with an empty salary pool --------------------------

\* C26: a run with listings whose salary texts all parse, but leave the min
\* pool or the max pool empty, fails in the aggregation: it ends there, with
\* no statistics and before any table is written.
C26_EmptyPoolAborts ==
    (/\ pc # "parsed"
     /\ \A i \in DOMAIN salary : ~SalaryError(salary[i])
     /\ \/ Pools(salary, Len(salary)).salaries_min = <<>>
        \/ Pools(salary, Len(salary)).salaries_max = <<>>) =>
        /\ pc = "aborted"
        /\ df_parsing_results = <<>>
        /\ df_current_jobs = <<>>
        /\ db = db_before

\* a run of an upper bound and a listing without salary: no lower bound
C26_Witness ==
    /\ pc = "aborted"
    /\ salary = <<TextTo(50000), NeUkazano>>
    /\ Pools(salary, Len(salary)).salaries_min = <<>>
    /\ Pools(salary, Len(salary)).salaries_max = <<50000>>

\* ---- claims on the snapshots across runs --------------------------------

\* every closed record of the tables has a unique_jobs record of its href
\* whose date is the closed record's publication_date
ClosedHaveUnique(tables) ==
    \A c \in RowSet(tables["unique_closed_jobs"].rows) :
        \E u \in RowSet(tables["unique_jobs"].rows) :
            u.href = c.href /\ u.date = c.publication_date

\* C27: every href of unique_closed_jobs has a record in unique_jobs, and
\* the closed record's publication_date is that record's date: a run that
\* starts from tables of which this is true leaves tables of which it is true
\* (it is true of the empty tables the first run starts from).
C27_ClosedSubsetOfUnique ==
    ClosedHaveUnique(db_before) => ClosedHaveUnique(db)

\* a run that closes a listing, from tables that hold a closed record already
C27_Witness ==
    /\ pc = "done"
    /\ ClosedHaveUnique(db_before)
    /\ prior_closed # <<>>
    /\ Len(db["unique_closed_jobs"].rows) > Len(prior_closed)

\* hrefs the run started with both a unique_jobs and a closed record of
ClosedBefore == HrefsOf(prior_closed) \cap HrefsOf(prior_unique)

\* C28: a run adds no unique_jobs record and no unique_closed_jobs record
\* for a href that was closed before it, whether the listing is back among
\* the current ones or has gone again; the closed record stays while the
\* listing is present, so that unique_closed_jobs holds hrefs that are open.
C28_ClosedStaysClosed ==
    \A h \in ClosedBefore :
        /\ CountOf(db["unique_jobs"].rows, h) = CountOf(prior_unique, h)
        /\ CountOf(db["unique_closed_jobs"].rows, h) = CountOf(prior_closed, h)
        /\ IsPrefix(prior_closed, db["unique_closed_jobs"].rows)

\* a listing closed before the run is among the run's current listings, and
\* its closed record is there after the run
C28_Witness ==
    /\ pc = "done"
    /\ \E h \in ClosedBefore :
          /\ h \in HrefsOf(df)
          /\ CountOf(db["unique_closed_jobs"].rows, h) = 1
          /\ CountOf(db["unique_jobs"].rows, h) = 1

\* the run in progress is the repeated one
Repeated == runs = MaxRuns + 1

\* C29: a run on the listings of the run before it, after that run has
\* persisted its deltas, emits an empty new_unique and an empty new_closed
\* delta: it adds no record to unique_jobs and none to unique_closed_jobs.
C29_RerunEmitsNothing ==
    Repeated =>
        /\ UniqueComputed => df_unique_jobs = <<>>
        /\ ClosedComputed => df_unique_closed_jobs = <<>>
        /\ db["unique_jobs"].rows = db_before["unique_jobs"].rows
        /\ db["unique_closed_jobs"].rows = db_before["unique_closed_jobs"].rows

\* the repeated run is through; a listing of unique_jobs is not among the
\* current ones (a closure candidate), and the tables hold closed records
C29_Witness ==
    /\ Repeated
    /\ pc = "done"
    /\ df_merged # <<>>
    /\ db["unique_closed_jobs"].rows # <<>>
    /\ HrefsOf(df) \subseteq HrefsOf(db["unique_jobs"].rows)

\* ---- claims on the two pipelines ----------------------------------------

\* the deltas as HhParserResultsProcessor.run (class) computes them from the
\* tables the run started from
ClassUnique == _get_unique_jobs_df(db_before, df)
ClassClosed == _get_unique_closed_jobs_df(db_before, ClosureCandidates(db_before, df, today))

\* C30: from the same unique_jobs, unique_closed_jobs, current listings and
\* run date the flat and the class pipeline append the same records to
\* unique_jobs and to unique_closed_jobs: what either pipeline has appended
\* when its run is through is what the class computation gives on the tables
\* the run started from (the flat pipeline reads unique_jobs again after its
\* own append).
C30_PipelinesAppendTheSame ==
    pc = "done" =>
        /\ RowSet(df_unique_jobs) = RowSet(ClassUnique)
        /\ RowSet(df_unique_closed_jobs) = RowSet(ClassClosed)
        /\ db["unique_jobs"].rows = prior_unique \o df_unique_jobs
        /\ db["unique_closed_jobs"].rows = prior_closed \o df_unique_closed_jobs

\* a run of the flat pipeline that appended to both tables
C30_Witness ==
    /\ pipeline = "flat"
    /\ pc = "done"
    /\ prior_unique # <<>>
    /\ df_unique_jobs # <<>>
    /\ df_unique_closed_jobs # <<>>

====
